---- MODULE Spec2Model ----
(***************************************************************************)
(* Floor Plan Chair Counter (src/main.py).                                 *)
(*                                                                         *)
(* A floor plan is a rectangular grid of characters.  main() finds the     *)
(* "(name)" annotations (find_rooms), classifies the cells as walkable or  *)
(* wall (np.isin), labels the 4-connected walkable regions (scipy's label, *)
(* or the author's own label_rooms / flood_fill), counts the chair symbols *)
(* of every named room (count_chairs) and prints the report.               *)
(*                                                                         *)
(* Characters are their code points, strings are sequences of code points, *)
(* a 2-D array is a sequence of rows, and a position is the 0-based pair   *)
(* <<row, col>> the code uses.  A dict is the sequence of its entries in   *)
(* insertion order.                                                        *)
(***************************************************************************)
EXTENDS Integers, Sequences, FiniteSets, TLC

VARIABLES pc, grid, rooms, walkable, labels, total, room_counts, out,
          current_label, room_i, queue, start, entry

vars == <<pc, grid, rooms, walkable, labels, total, room_counts, out,
          current_label, room_i, queue, start, entry>>

(***************************************************************************)
(* Bounds of the model.                                                    *)
(***************************************************************************)
\* largest number of cells (rows * cols) of a floor plan given to main()
MaxCells == 6
\* largest number of cells of a walkable mask given to the region labeler
MaxMaskCells == 9
\* largest number of cells of a floor plan given to count_chairs directly
MaxCountCells == 4

(***************************************************************************)
(* Characters.                                                             *)
(***************************************************************************)
LPAREN == 40
RPAREN == 41
COLON == 58
SPACE == 32
\* "W", "P", "S", "C"
CHAIR_TYPES == <<87, 80, 83, 67>>
\* "+", "-", "|", "/"
WALL_CHARS == {43, 45, 124, 47}
\* "total:"
TOTAL_HEADER == <<116, 111, 116, 97, 108, COLON>>

\* the characters of the floor plans main() is run on: ( ) + W C
Alphabet == {LPAREN, RPAREN, 43, 87, 67}
\* the characters of the floor plans count_chairs is run on: blank + W
CountAlphabet == {SPACE, 43, 87}
\* the room names count_chairs is run on: "a", "b"
CountNames == {<<97>>, <<98>>}

(***************************************************************************)
(* Arrays and dicts.                                                       *)
(***************************************************************************)
Shapes(n) == {s \in (1..n) \X (1..n) : s[1] * s[2] <= n}
Arrays(n, values) == UNION {[1..s[1] -> [1..s[2] -> values]] : s \in Shapes(n)}

NRows(a) == Len(a)
NCols(a) == Len(a[1])
Cells(a) == (0..(NRows(a) - 1)) \X (0..(NCols(a) - 1))
At(a, p) == a[p[1] + 1][p[2] + 1]
Put(a, p, v) == [a EXCEPT ![p[1] + 1][p[2] + 1] = v]

DictKeys(d) == {d[i].key : i \in DOMAIN d}
DictGet(d, k) == d[CHOOSE i \in DOMAIN d : d[i].key = k].val
DictSet(d, k, v) ==
    IF k \in DictKeys(d)
    THEN [i \in DOMAIN d |-> IF d[i].key = k THEN [key |-> k, val |-> v] ELSE d[i]]
    ELSE Append(d, [key |-> k, val |-> v])

(***************************************************************************)
(* find_rooms: re.finditer(r"\(([^)]+)\)", line) on every row.             *)
(***************************************************************************)
\* the least index j >= i of a ")" in line, or 0
NextClose(line, i) ==
    LET S == {j \in i..Len(line) : line[j] = RPAREN}
    IN  IF S = {} THEN 0 ELSE CHOOSE j \in S : \A k \in S : j <= k

\* [^)]* in place of [^)]+
GroupMatchesStar(i, j) == j >= i + 1

\* "(" at i, ")" at j, no ")" between: [^)]+ needs one character at least
GroupMatches(i, j) == j >= i + 2

RECURSIVE finditer(_, _)
\* the non-overlapping matches in line, leftmost first, scanning from index i
\* (1-based); start is match.start(), 0-based, group1 is match.group(1)
finditer(line, i) ==
    IF i > Len(line) THEN <<>>
    ELSE LET j == NextClose(line, i + 1)
         IN  IF line[i] = LPAREN /\ GroupMatches(i, j)
             THEN <<[start |-> i - 1, group1 |-> SubSeq(line, i + 1, j - 1)]>>
                  \o finditer(line, j + 1)
             ELSE finditer(line, i + 1)

\* the position of the first character of the name
AnchorAtName(row_idx, match) == <<row_idx, match.start + 1>>

\* (row_idx, match.start())
Anchor(row_idx, match) == <<row_idx, match.start>>

RECURSIVE AddMatches(_, _, _)
AddMatches(d, row_idx, matches) ==
    IF matches = <<>> THEN d
    ELSE AddMatches(DictSet(d, Head(matches).group1, Anchor(row_idx, Head(matches))),
                    row_idx, Tail(matches))

RECURSIVE FindRoomsFrom(_, _, _)
FindRoomsFrom(g, r, d) ==
    IF r > NRows(g) THEN d
    ELSE FindRoomsFrom(g, r + 1, AddMatches(d, r - 1, finditer(g[r], 1)))

find_rooms(g) == FindRoomsFrom(g, 1, <<>>)

(***************************************************************************)
(* np.isin(room_array, list(WALL_CHARS), invert=True)                      *)
(***************************************************************************)
IsWalkableAll(ch) == TRUE

IsWalkable(ch) == ch \notin WALL_CHARS

isin_invert(g) == [r \in DOMAIN g |-> [c \in DOMAIN g[r] |-> IsWalkable(g[r][c])]]

(***************************************************************************)
(* scipy_label(walkable, structure): the features of the mask under the    *)
(* structuring element; 0 is the background.  As scipy.ndimage.label does, *)
(* a raster scan gives each cell the least provisional label of the        *)
(* neighbours already scanned, or a new one, and merges the labels that    *)
(* meet; the labels that are left are then renumbered 1, 2, ... in          *)
(* increasing order.                                                       *)
(***************************************************************************)
\* all ones: diagonal neighbours too
STRUCTURE8 == <<<<1, 1, 1>>, <<1, 1, 1>>, <<1, 1, 1>>>>

\* structure=[[0, 1, 0], [1, 1, 1], [0, 1, 0]]
STRUCTURE == <<<<0, 1, 0>>, <<1, 1, 1>>, <<0, 1, 0>>>>

Offsets(structure) ==
    {d \in {-1, 0, 1} \X {-1, 0, 1} : structure[d[1] + 2][d[2] + 2] = 1}

\* the neighbours that come before the cell in raster order
PriorOffsets(structure) ==
    {d \in Offsets(structure) : d[1] < 0 \/ (d[1] = 0 /\ d[2] < 0)}

InBounds(a, p) == 0 <= p[1] /\ p[1] < NRows(a) /\ 0 <= p[2] /\ p[2] < NCols(a)

Zeros(a) == [r \in DOMAIN a |-> [c \in DOMAIN a[r] |-> 0]]

Least(S) == CHOOSE m \in S : \A x \in S : m <= x

\* the labels of from merged into the label to
Merge(a, from, to) ==
    [r \in DOMAIN a |-> [c \in DOMAIN a[r] |-> IF a[r][c] \in from THEN to ELSE a[r][c]]]

RECURSIVE Provisional(_, _, _, _, _)
\* the scan at cell number k (row-major), n provisional labels given so far
Provisional(input, prior, k, output, n) ==
    IF k = NRows(input) * NCols(input) THEN output
    ELSE LET p == <<k \div NCols(input), k % NCols(input)>>
             Seen == {d \in prior : InBounds(input, <<p[1] + d[1], p[2] + d[2]>>)}
             L == {At(output, <<p[1] + d[1], p[2] + d[2]>>) : d \in Seen} \ {0}
         IN  IF ~At(input, p) THEN Provisional(input, prior, k + 1, output, n)
             ELSE IF L = {}
             THEN Provisional(input, prior, k + 1, Put(output, p, n + 1), n + 1)
             ELSE IF Cardinality(L) = 1
             THEN Provisional(input, prior, k + 1, Put(output, p, Least(L)), n)
             ELSE Provisional(input, prior, k + 1,
                              Put(Merge(output, L, Least(L)), p, Least(L)), n)

Used(a) == {a[r][c] : r \in DOMAIN a, c \in DOMAIN a[1]} \ {0}

\* the labels renumbered from the greatest down
CompactDown(a, used) ==
    [r \in DOMAIN a |-> [c \in DOMAIN a[r] |->
        IF a[r][c] = 0 THEN 0 ELSE Cardinality({l \in used : l >= a[r][c]})]]

\* the labels left after the merges, renumbered 1, 2, ... in increasing order
Compact(a, used) ==
    [r \in DOMAIN a |-> [c \in DOMAIN a[r] |->
        IF a[r][c] = 0 THEN 0 ELSE Cardinality({l \in used : l <= a[r][c]})]]

Relabel(a) == Compact(a, Used(a))

scipy_label(input, structure) ==
    Relabel(Provisional(input, PriorOffsets(structure), 0, Zeros(input), 0))

(***************************************************************************)
(* count_chairs                                                            *)
(***************************************************************************)
RECURSIVE SumMask(_, _, _, _, _)
\* int(np.sum(room_array[mask] == ch)) with mask = (labels == room_label),
\* summed from cell number k on
SumMask(room_array, labs, room_label, ch, k) ==
    IF k = NRows(labs) * NCols(labs) THEN 0
    ELSE LET p == <<k \div NCols(labs), k % NCols(labs)>>
         IN  (IF At(labs, p) = room_label /\ At(room_array, p) = ch THEN 1 ELSE 0)
             + SumMask(room_array, labs, room_label, ch, k + 1)

ChairSet == {CHAIR_TYPES[i] : i \in DOMAIN CHAIR_TYPES}

\* every chair of the floor plan, whatever its label
RoomCountsAnyLabel(room_array, labs, pos) ==
    [ch \in ChairSet |-> SumMask(room_array, Zeros(labs), 0, ch, 0)]

RoomCounts(room_array, labs, pos) ==
    [ch \in ChairSet |-> SumMask(room_array, labs, At(labs, pos), ch, 0)]

\* total[ch] = counts[ch]
AddTotalOverwrite(tot, counts) == counts

\* total[ch] += counts[ch]
AddTotal(tot, counts) == [ch \in ChairSet |-> tot[ch] + counts[ch]]

RECURSIVE CountFrom(_, _, _, _, _, _)
CountFrom(room_array, labs, rms, i, tot, rc) ==
    IF i > Len(rms) THEN <<tot, rc>>
    ELSE LET counts == RoomCounts(room_array, labs, rms[i].val)
         IN  CountFrom(room_array, labs, rms, i + 1,
                       AddTotal(tot, counts), DictSet(rc, rms[i].key, counts))

count_chairs(room_array, labs, rms) ==
    CountFrom(room_array, labs, rms, 1, [ch \in ChairSet |-> 0], <<>>)

(***************************************************************************)
(* The report of main(): format_counts and sorted().                       *)
(***************************************************************************)
format_counts(counts) ==
    [i \in DOMAIN CHAIR_TYPES |-> <<CHAIR_TYPES[i], counts[CHAIR_TYPES[i]]>>]

RECURSIVE StrLess(_, _)
\* a < b for Python strings
StrLess(a, b) ==
    IF b = <<>> THEN FALSE
    ELSE IF a = <<>> THEN TRUE
    ELSE IF Head(a) # Head(b) THEN Head(a) < Head(b)
    ELSE StrLess(Tail(a), Tail(b))

RECURSIVE Insert(_, _)
Insert(s, x) ==
    IF s = <<>> THEN <<x>>
    ELSE IF StrLess(x, Head(s)) THEN <<x>> \o s
    ELSE <<Head(s)>> \o Insert(Tail(s), x)

RECURSIVE SortFrom(_, _, _)
SortFrom(s, i, acc) ==
    IF i > Len(s) THEN acc ELSE SortFrom(s, i + 1, Insert(acc, s[i]))

\* the keys as they were inserted
unsorted(d) == [i \in DOMAIN d |-> d[i].key]

\* sorted(d.keys())
sorted(d) == SortFrom([i \in DOMAIN d |-> d[i].key], 1, <<>>)

RECURSIVE Sections(_, _, _)
Sections(names, i, rc) ==
    IF i > Len(names) THEN <<>>
    ELSE <<names[i] \o <<COLON>>, format_counts(DictGet(rc, names[i]))>>
         \o Sections(names, i + 1, rc)

report(tot, rc) == <<TOTAL_HEADER, format_counts(tot)>> \o Sections(sorted(rc), 1, rc)

(***************************************************************************)
(* label_rooms and flood_fill, the author's own labeler.                   *)
(***************************************************************************)
\* walkable.astype(int)
astype_int(w) == [r \in DOMAIN w |-> [c \in DOMAIN w[r] |-> IF w[r][c] THEN 1 ELSE 0]]

\* [(-1, 0), (1, 0), (0, -1), (0, 1)]
DIRS == <<<<-1, 0>>, <<1, 0>>, <<0, -1>>, <<0, 1>>>>

RECURSIVE Visit(_, _, _, _, _)
\* the for loop of flood_fill over DIRS[i..] around the cell p just popped;
\* st is <<array, queue>>
Visit(st, p, label, i, rows_cols) ==
    IF i > Len(DIRS) THEN st
    ELSE LET nr == p[1] + DIRS[i][1]
             nc == p[2] + DIRS[i][2]
         IN  IF /\ 0 <= nr /\ nr < rows_cols[1]
                /\ 0 <= nc /\ nc < rows_cols[2]
                /\ At(st[1], <<nr, nc>>) = 1
             THEN Visit(<<Put(st[1], <<nr, nc>>, label), Append(st[2], <<nr, nc>>)>>,
                        p, label, i + 1, rows_cols)
             ELSE Visit(st, p, label, i + 1, rows_cols)

(***************************************************************************)
(* The state machine.  pc is the statement of main() that runs next.       *)
(***************************************************************************)
Idle ==
    /\ rooms = <<>> /\ walkable = <<>> /\ labels = <<>>
    /\ total = <<>> /\ room_counts = <<>> /\ out = <<>>
    /\ current_label = 0 /\ room_i = 0 /\ queue = <<>>
    /\ start = <<0, 0>> /\ entry = <<>>

\* room_array = parse_floor_plan(file)
Init ==
    /\ pc = "find_rooms"
    /\ grid \in Arrays(MaxCells, Alphabet)
    /\ Idle

\* rooms = find_rooms(room_array)
FindRooms ==
    /\ pc = "find_rooms"
    /\ rooms' = find_rooms(grid)
    /\ pc' = "isin"
    /\ UNCHANGED <<grid, walkable, labels, total, room_counts, out,
                   current_label, room_i, queue, start, entry>>

\* walkable = np.isin(room_array, list(WALL_CHARS), invert=True)
Isin ==
    /\ pc = "isin"
    /\ walkable' = isin_invert(grid)
    /\ pc' = "label"
    /\ UNCHANGED <<grid, rooms, labels, total, room_counts, out,
                   current_label, room_i, queue, start, entry>>

\* labels, _ = scipy_label(walkable, structure=[[0, 1, 0], [1, 1, 1], [0, 1, 0]])
ScipyLabel ==
    /\ pc = "label"
    /\ labels' = scipy_label(walkable, STRUCTURE)
    /\ pc' = "count_chairs"
    /\ UNCHANGED <<grid, rooms, walkable, total, room_counts, out,
                   current_label, room_i, queue, start, entry>>

\* total, room_counts = count_chairs(room_array, labels, rooms)
CountChairs ==
    /\ pc = "count_chairs"
    /\ LET r == count_chairs(grid, labels, rooms)
       IN  /\ total' = r[1]
           /\ room_counts' = r[2]
    /\ pc' = "print"
    /\ UNCHANGED <<grid, rooms, walkable, labels, out,
                   current_label, room_i, queue, start, entry>>

\* the print statements of main()
PrintReport ==
    /\ pc = "print"
    /\ out' = report(total, room_counts)
    /\ pc' = "done"
    /\ UNCHANGED <<grid, rooms, walkable, labels, total, room_counts,
                   current_label, room_i, queue, start, entry>>

Next == FindRooms \/ Isin \/ ScipyLabel \/ CountChairs \/ PrintReport

Spec == Init /\ [][Next]_vars

(***************************************************************************)
(* main() with the labeler of its comment: labels = label_rooms(walkable,  *)
(* rooms).  flood_fill runs one iteration of its while loop per step.      *)
(***************************************************************************)
\* labels = walkable.astype(int); current_label = 2
LabelRooms ==
    /\ pc = "label"
    /\ labels' = astype_int(walkable)
    /\ current_label' = 2
    /\ room_i' = 1
    /\ pc' = "for"
    /\ UNCHANGED <<grid, rooms, walkable, total, room_counts, out, queue, start, entry>>

\* for _, (row, col) in rooms.items(): flood_fill(labels, (row, col), current_label)
\* and, in flood_fill, queue = deque([start])
FloodFillCall ==
    /\ pc = "for"
    /\ room_i <= Len(rooms)
    /\ start' = rooms[room_i].val
    /\ queue' = <<rooms[room_i].val>>
    /\ entry' = labels
    /\ pc' = "while"
    /\ UNCHANGED <<grid, rooms, walkable, labels, total, room_counts, out,
                   current_label, room_i>>

\* one iteration of while queue: popleft and the for loop over the neighbours
FloodFillStep ==
    /\ pc = "while"
    /\ queue # <<>>
    /\ LET st == Visit(<<labels, Tail(queue)>>, Head(queue), current_label, 1,
                       <<NRows(labels), NCols(labels)>>)
       IN  /\ labels' = st[1]
           /\ queue' = st[2]
    /\ UNCHANGED <<pc, grid, rooms, walkable, total, room_counts, out,
                   current_label, room_i, start, entry>>

\* the queue is empty: flood_fill returns; current_label += 1
FloodFillReturn ==
    /\ pc = "while"
    /\ queue = <<>>
    /\ current_label' = current_label + 1
    /\ room_i' = room_i + 1
    /\ pc' = "for"
    /\ UNCHANGED <<grid, rooms, walkable, labels, total, room_counts, out,
                   queue, start, entry>>

\* return labels
LabelRoomsReturn ==
    /\ pc = "for"
    /\ room_i > Len(rooms)
    /\ pc' = "count_chairs"
    /\ UNCHANGED <<grid, rooms, walkable, labels, total, room_counts, out,
                   current_label, room_i, queue, start, entry>>

NextOwn ==
    \/ FindRooms \/ Isin \/ LabelRooms \/ FloodFillCall \/ FloodFillStep
    \/ FloodFillReturn \/ LabelRoomsReturn \/ CountChairs \/ PrintReport

SpecOwn == Init /\ [][NextOwn]_vars

(***************************************************************************)
(* The region labeler on every walkable mask.                              *)
(***************************************************************************)
InitLabel ==
    /\ pc = "label"
    /\ grid = <<>>
    /\ rooms = <<>> /\ labels = <<>>
    /\ total = <<>> /\ room_counts = <<>> /\ out = <<>>
    /\ current_label = 0 /\ room_i = 0 /\ queue = <<>>
    /\ start = <<0, 0>> /\ entry = <<>>
    /\ walkable \in Arrays(MaxMaskCells, BOOLEAN)

NextLabel == ScipyLabel

SpecLabel == InitLabel /\ [][NextLabel]_vars

(***************************************************************************)
(* count_chairs on every room mapping, the anchors anywhere in the grid.   *)
(***************************************************************************)
\* the dicts with keys among names and values among positions
Dicts(names, positions) ==
    LET Orders == {s \in UNION {[1..n -> names] : n \in 0..Cardinality(names)} :
                      \A i, j \in DOMAIN s : i # j => s[i] # s[j]}
    IN  UNION {{[i \in DOMAIN s |-> [key |-> s[i], val |-> f[i]]] :
                   f \in [DOMAIN s -> positions]} : s \in Orders}

InitCount ==
    /\ pc = "isin"
    /\ grid \in Arrays(MaxCountCells, CountAlphabet)
    /\ rooms \in Dicts(CountNames, Cells(grid))
    /\ walkable = <<>> /\ labels = <<>>
    /\ total = <<>> /\ room_counts = <<>> /\ out = <<>>
    /\ current_label = 0 /\ room_i = 0 /\ queue = <<>>
    /\ start = <<0, 0>> /\ entry = <<>>

NextCount == Isin \/ ScipyLabel \/ CountChairs \/ PrintReport

SpecCount == InitCount /\ [][NextCount]_vars

(***************************************************************************)
(* Notions the properties are stated with.                                 *)
(***************************************************************************)
\* p and q are one step up, down, left or right of each other
Adjacent(p, q) ==
    \/ p[1] = q[1] /\ (p[2] - q[2] = 1 \/ q[2] - p[2] = 1)
    \/ p[2] = q[2] /\ (p[1] - q[1] = 1 \/ q[1] - p[1] = 1)

RECURSIVE PathsVia(_, _)
\* R closed under composition through the cells of mids, one cell at a time
PathsVia(R, mids) ==
    IF mids = {} THEN R
    ELSE LET k == CHOOSE k \in mids : TRUE
             From == {x[1] : x \in {y \in R : y[2] = k}}
             To == {x[2] : x \in {y \in R : y[1] = k}}
         IN  PathsVia(R \union (From \X To), mids \ {k})

\* the pairs of cells of W joined by a path of cells of W, each step between
\* adjacent cells
Joined(W) == PathsVia({x \in W \X W : x[1] = x[2] \/ Adjacent(x[1], x[2])}, W)

TrueCells(a) == {p \in Cells(a) : At(a, p)}
CellsWith(a, v) == {p \in Cells(a) : At(a, p) = v}
\* the row-major number of a cell
Index(a, p) == p[1] * NCols(a) + p[2]
\* the cell of S that comes first in row-major order
FirstCell(a, S) == CHOOSE p \in S : \A q \in S : Index(a, p) <= Index(a, q)

RECURSIVE SumSeq(_)
SumSeq(s) == IF s = <<>> THEN 0 ELSE Head(s) + SumSeq(Tail(s))

\* the cells that carry the chair symbol ch and the label of the cell pos
ChairsOfRegion(ch, pos) ==
    {p \in Cells(grid) : At(grid, p) = ch /\ At(labels, p) = At(labels, pos)}

\* a comes before b in lexicographic order of code points
LexLess(a, b) ==
    \E k \in 1..(Len(a) + 1) :
        /\ k <= Len(b)
        /\ SubSeq(a, 1, k - 1) = SubSeq(b, 1, k - 1)
        /\ (k = Len(a) + 1 \/ a[k] < b[k])

Counted == pc \in {"print", "done"}

(***************************************************************************)
(* Properties.                                                             *)
(***************************************************************************)
\* C1: in the label grid of any rectangular walkable mask, two walkable cells
\* have the same label iff a path of walkable cells with up/down/left/right
\* steps joins them; a non-walkable cell has label 0, a walkable cell a
\* positive label.
C1_Partition ==
    pc = "count_chairs" =>
        LET W == TrueCells(walkable)
            J == Joined(W)
        IN  /\ \A p \in Cells(walkable) \ W : At(labels, p) = 0
            /\ \A p \in W : At(labels, p) > 0
            /\ \A p, q \in W : (At(labels, p) = At(labels, q)) <=> (<<p, q>> \in J)

\* labeled: two cells that touch only diagonally lie in different regions, two
\* cells that do not touch lie in one region, and there is a wall
C1_Witness ==
    /\ pc = "count_chairs"
    /\ \E p, q \in TrueCells(walkable) :
          /\ p[1] + 1 = q[1] /\ (p[2] + 1 = q[2] \/ p[2] - 1 = q[2])
          /\ At(labels, p) # At(labels, q)
    /\ \E p, q \in TrueCells(walkable) :
          /\ p # q /\ ~Adjacent(p, q)
          /\ At(labels, p) = At(labels, q)
    /\ \E p \in Cells(walkable) : ~At(walkable, p)

\* C8: the positive labels are exactly 1..k, numbered by discovery in a
\* row-major scan: for labels a < b the first cell with label a comes before
\* the first cell with label b, and the first walkable cell has label 1.
C8_RasterOrder ==
    pc = "count_chairs" =>
        LET W == TrueCells(walkable)
            L == {At(labels, p) : p \in W}
        IN  /\ L = 1..Cardinality(L)
            /\ \A a, b \in L :
                  a < b => Index(labels, FirstCell(labels, CellsWith(labels, a)))
                           < Index(labels, FirstCell(labels, CellsWith(labels, b)))
            /\ W # {} => At(labels, FirstCell(walkable, W)) = 1

\* labeled, with three regions at least, the first cell of the mask a wall
C8_Witness ==
    /\ pc = "count_chairs"
    /\ ~At(walkable, <<0, 0>>)
    /\ \E p \in Cells(labels) : At(labels, p) >= 3

\* C2: for every room and chair type the per-room count is the number of cells
\* that carry the chair symbol and the label of the room's anchor cell; the
\* totals hold the chairs of the rooms' regions only, so chairs in a region
\* without an anchor are counted for no room and are in no total.
C2_RoomCounts ==
    Counted =>
        /\ DictKeys(room_counts) = DictKeys(rooms)
        /\ \A i \in DOMAIN rooms : \A ch \in ChairSet :
              DictGet(room_counts, rooms[i].key)[ch]
                  = Cardinality(ChairsOfRegion(ch, rooms[i].val))
        /\ \A ch \in ChairSet :
              total[ch] = SumSeq([i \in DOMAIN rooms |->
                                     Cardinality(ChairsOfRegion(ch, rooms[i].val))])

\* counted: a room with a chair of its own, and a chair in a region that holds
\* no anchor
C2_Witness ==
    /\ Counted
    /\ \E i \in DOMAIN rooms : room_counts[i].val[87] >= 1
    /\ \E p \in Cells(grid) :
          /\ At(grid, p) \in ChairSet
          /\ \A i \in DOMAIN rooms : At(labels, rooms[i].val) # At(labels, p)

\* C3: for every chair type the total is the sum of the per-room counts over
\* all rooms; two rooms with anchors in one region both report the full counts
\* of the region, and the region is in the total once per room.
C3_Totals ==
    Counted =>
        /\ Len(room_counts) = Len(rooms)
        /\ \A ch \in ChairSet :
              total[ch] = SumSeq([i \in DOMAIN room_counts |-> room_counts[i].val[ch]])
        /\ \A i, j \in DOMAIN rooms :
              (i # j /\ At(labels, rooms[i].val) = At(labels, rooms[j].val)) =>
                  \A ch \in ChairSet :
                      /\ DictGet(room_counts, rooms[i].key)[ch]
                            = Cardinality(ChairsOfRegion(ch, rooms[i].val))
                      /\ DictGet(room_counts, rooms[j].key)[ch]
                            = DictGet(room_counts, rooms[i].key)[ch]

\* counted: two rooms in one region that holds a chair, the chair twice in the
\* total
C3_Witness ==
    /\ Counted
    /\ Len(rooms) = 2
    /\ At(labels, rooms[1].val) = At(labels, rooms[2].val)
    /\ Cardinality(ChairsOfRegion(87, rooms[1].val)) = 1
    /\ total[87] = 2

\* C4 as the specification states it: the anchor of a room is the cell of the
\* first character of its name, the opening parenthesis one cell to its left.
C4_AnchorAtName ==
    pc # "find_rooms" =>
        \A i \in DOMAIN rooms :
            LET row == grid[rooms[i].val[1] + 1]
                c == rooms[i].val[2]
                n == Len(rooms[i].key)
            IN  /\ c >= 1
                /\ c + n + 1 <= Len(row)
                /\ row[c] = LPAREN
                /\ SubSeq(row, c + 1, c + n) = rooms[i].key
                /\ row[c + n + 1] = RPAREN

\* C4, amended: the anchor of a room is the cell of the opening parenthesis of
\* its annotation; the name starts one cell to the right of the anchor and
\* the closing parenthesis follows the name.
C4_AnchorAtParen ==
    pc # "find_rooms" =>
        \A i \in DOMAIN rooms :
            LET row == grid[rooms[i].val[1] + 1]
                c == rooms[i].val[2]
                n == Len(rooms[i].key)
            IN  /\ c + n + 2 <= Len(row)
                /\ row[c + 1] = LPAREN
                /\ SubSeq(row, c + 2, c + n + 1) = rooms[i].key
                /\ row[c + n + 2] = RPAREN

\* a room was found whose name starts with a wall glyph: the anchor is
\* walkable, the cell of the first character is not
C4_Witness ==
    /\ pc # "find_rooms"
    /\ \E i \in DOMAIN rooms :
          /\ Head(rooms[i].key) \in WALL_CHARS
          /\ At(grid, rooms[i].val) \notin WALL_CHARS

\* a row holds "(" next to ")"
HasEmptyGroup(r) == \E c \in 1..(Len(grid[r]) - 1) :
                        grid[r][c] = LPAREN /\ grid[r][c + 1] = RPAREN

\* C6 as the specification states it: after the scan of a grid that holds
\* "()", the room mapping holds the empty name with an anchor on that row.
C6_EmptyNameStored ==
    pc # "find_rooms" =>
        \A r \in DOMAIN grid :
            HasEmptyGroup(r) =>
                /\ <<>> \in DictKeys(rooms)
                /\ \E c \in 0..(Len(grid[r]) - 1) : DictGet(rooms, <<>>) = <<r - 1, c>>

\* C6, amended: an empty group "()" yields no room: the room mapping never
\* holds the empty name, and every name found is one character long at least.
C6_NoEmptyName ==
    pc # "find_rooms" => \A i \in DOMAIN rooms : Len(rooms[i].key) >= 1

\* scanned: a row starts with "()" and goes on with a room
C6_Witness ==
    /\ pc # "find_rooms"
    /\ \E r \in DOMAIN grid :
          /\ Len(grid[r]) >= 2
          /\ grid[r][1] = LPAREN /\ grid[r][2] = RPAREN
          /\ \E i \in DOMAIN rooms : rooms[i].val[1] = r - 1 /\ rooms[i].val[2] >= 2

\* C7: the report is the "total:" section and then one section per room of
\* the mapping, in strictly increasing lexicographic order of the names,
\* whatever the order the rooms were found in.
C7_SortedReport ==
    pc = "done" =>
        /\ Len(out) = 2 + 2 * Len(rooms)
        /\ out[1] = TOTAL_HEADER
        /\ out[2] = format_counts(total)
        /\ {out[2 * i + 1] : i \in 1..Len(rooms)}
              = {k \o <<COLON>> : k \in DictKeys(rooms)}
        /\ \A i \in 1..Len(rooms) :
              /\ out[2 * i + 2]
                    = format_counts(DictGet(room_counts,
                                            SubSeq(out[2 * i + 1], 1, Len(out[2 * i + 1]) - 1)))
              /\ i > 1 => LexLess(SubSeq(out[2 * i - 1], 1, Len(out[2 * i - 1]) - 1),
                                  SubSeq(out[2 * i + 1], 1, Len(out[2 * i + 1]) - 1))

\* printed: two rooms, the one found first with the greater name
C7_Witness ==
    /\ pc = "done"
    /\ Len(rooms) = 2
    /\ LexLess(rooms[2].key, rooms[1].key)

\* C5: a room whose anchor cell is a wall glyph (label 0) has count zero for
\* every chair type and adds nothing to the totals, whatever chairs the other
\* regions hold.
C5_WallAnchor ==
    Counted =>
        /\ \A i \in DOMAIN rooms :
              At(grid, rooms[i].val) \in WALL_CHARS =>
                  /\ At(labels, rooms[i].val) = 0
                  /\ \A ch \in ChairSet : DictGet(room_counts, rooms[i].key)[ch] = 0
        /\ \A ch \in ChairSet :
              total[ch] = SumSeq([i \in DOMAIN rooms |->
                                     IF At(grid, rooms[i].val) \in WALL_CHARS THEN 0
                                     ELSE Cardinality(ChairsOfRegion(ch, rooms[i].val))])

\* the report is out: a room anchored on a wall next to a chair, and another
\* room with a chair
C5_Witness ==
    /\ pc = "done"
    /\ \E i, j \in DOMAIN rooms :
          /\ At(grid, rooms[i].val) \in WALL_CHARS
          /\ \E p \in Cells(grid) : Adjacent(p, rooms[i].val) /\ At(grid, p) = 87
          /\ room_counts[j].val[87] >= 1
          /\ total[87] >= 1

\* C9: flood_fill called on a start cell of value 1 returns with the label on
\* exactly the cells joined to start through cells of value 1, start itself
\* among them, and every other cell as it was.
C9_FloodFill ==
    (pc = "while" /\ queue = <<>> /\ At(entry, start) = 1) =>
        LET J == Joined(CellsWith(entry, 1))
        IN  \A p \in Cells(labels) :
                At(labels, p) = IF <<start, p>> \in J THEN current_label
                                ELSE At(entry, p)

\* C10: count_chairs over the labels of label_rooms returns the totals and
\* the per-room counts it returns over the labels of scipy_label.
C10_SameCounts ==
    Counted =>
        <<total, room_counts>>
            = count_chairs(grid, scipy_label(walkable, STRUCTURE), rooms)

====
